---- MODULE Spec2Model ----
(***************************************************************************)
(* The generation loop of the evolutionary hyper-parameter search          *)
(* (main.py: train_networks, get_average_accuracy, generate,               *)
(* print_networks), with the Network and Optimizer classes it drives.      *)
(***************************************************************************)
EXTENDS Integers, Sequences, FiniteSets, TLC

\* ------------------------------------------------------------------ bounds
MaxGenerations == 3
MaxPopulation == 3
MaxAccuracy == 1
MaxTieLen == 2
MaxReportLen == 6

\* --------------------------------------------------------------- constants
\* networks[:5]
TopK == 5
\* fitness of a genome that has not been evaluated
Unset == -1
\* the worst possible fitness, recorded for a genome whose training failed
WorstFitness == 0
\* retain_rate = RetainNum / RetainDen = 0.4
RetainNum == 2
RetainDen == 5

VARIABLES
    generations,      \* argument of generate
    population,       \* argument of generate
    nn_param_choices, \* argument of generate
    dataset,          \* argument of generate
    pc,               \* position of generate
    aborted,          \* an exception has propagated out of generate
    i,                \* loop variable of generate
    networks,         \* the working population
    pos,              \* networks train_networks has called train on, this round
    average_accuracy, \* <<total_accuracy, len(networks)>> of the last round
    unsorted,         \* the population handed to sorted()
    reported,         \* what print_networks was handed
    evalRounds,       \* calls of train_networks so far
    evolveCalls,      \* calls of optimizer.evolve so far
    trainCalls,       \* positions train was called on, in order, this round
    invocations,      \* calls of the training collaborator, this round
    unsetAtStart,     \* genomes with unset fitness when this round began
    trainedWith,      \* dataset identifiers handed to train so far
    prevBest          \* best fitness of the generation handed to the last evolve

vars == <<generations, population, nn_param_choices, dataset, pc, aborted, i,
          networks, pos, average_accuracy, unsorted, reported, evalRounds,
          evolveCalls, trainCalls, invocations, unsetAtStart, trainedWith,
          prevBest>>

config == <<generations, population, nn_param_choices, dataset>>

\* ---------------------------------------------------------- parameter space
\* nn_param_choices: the dimensions the driver reads, and one it does not
SmallSpace ==
    [nb_layers |-> {3, 5}, nb_dense_layers |-> {1}, nb_neurons |-> {128},
     activation |-> {"relu"}]

FullSpace ==
    [nb_layers |-> {3, 5}, nb_dense_layers |-> {1, 2}, nb_neurons |-> {128, 256},
     activation |-> {"relu", "elu"}]

Datasets == {"data-original", "data-small"}

GeneSet(space) ==
    [nb_layers : space.nb_layers,
     nb_dense_layers : space.nb_dense_layers,
     nb_neurons : space.nb_neurons,
     activation : space.activation]

\* ------------------------------------------------------------------ genome
NewGenome(genes) ==
    [accuracy |-> Unset,
     nb_layers |-> genes.nb_layers,
     nb_dense_layers |-> genes.nb_dense_layers,
     nb_neurons |-> genes.nb_neurons,
     activation |-> genes.activation,
     submitted |-> 0, writes |-> 0, failed |-> FALSE]

Genes(g) ==
    [nb_layers |-> g.nb_layers,
     nb_dense_layers |-> g.nb_dense_layers,
     nb_neurons |-> g.nb_neurons,
     activation |-> g.activation]

\* what the training collaborator does with one genome: it returns an
\* accuracy or it fails
TrainOutcomes ==
    [failed : {FALSE}, accuracy : 0..MaxAccuracy]
        \cup {[failed |-> TRUE, accuracy |-> WorstFitness]}

\* Network.train: the trainer is invoked only for a genome whose fitness is
\* unset; a failure of the trainer is recorded as the worst fitness.
NetworkTrainDropsFailure(g, outcome) ==
    IF g.accuracy # Unset THEN g
    ELSE IF outcome.failed
    THEN [g EXCEPT !.submitted = @ + 1, !.failed = TRUE]
    ELSE [g EXCEPT !.accuracy = outcome.accuracy, !.submitted = @ + 1,
                   !.writes = @ + 1]

NetworkTrainNoCache(g, outcome) ==
    IF outcome.failed
    THEN [g EXCEPT !.accuracy = WorstFitness, !.submitted = @ + 1,
                   !.writes = @ + 1, !.failed = TRUE]
    ELSE [g EXCEPT !.accuracy = outcome.accuracy, !.submitted = @ + 1,
                   !.writes = @ + 1]

NetworkTrain(g, outcome) ==
    IF g.accuracy # Unset THEN g
    ELSE IF outcome.failed
    THEN [g EXCEPT !.accuracy = WorstFitness, !.submitted = @ + 1,
                   !.writes = @ + 1, !.failed = TRUE]
    ELSE [g EXCEPT !.accuracy = outcome.accuracy, !.submitted = @ + 1,
                   !.writes = @ + 1]

NumUnset(nets) == Cardinality({k \in 1..Len(nets) : nets[k].accuracy = Unset})

AllEvaluated(nets) == \A k \in 1..Len(nets) : nets[k].accuracy # Unset

\* ------------------------------------------------------- composite ordering
\* key=lambda x: (x.accuracy, -x.nb_layers, -x.nb_dense_layers, -x.nb_neurons)
SortKeyLayersLast(x) ==
    <<x.accuracy, -x.nb_dense_layers, -x.nb_neurons, -x.nb_layers>>

SortKey(x) == <<x.accuracy, -x.nb_layers, -x.nb_dense_layers, -x.nb_neurons>>

\* Python's ordering of tuples of equal length: lexicographic
RECURSIVE TupleLess(_, _)
TupleLess(s, t) ==
    IF s = <<>> \/ t = <<>> THEN FALSE
    ELSE IF Head(s) # Head(t) THEN Head(s) < Head(t)
    ELSE TupleLess(Tail(s), Tail(t))

\* a is placed before b by sorted(..., reverse=True) whenever Before(a, b)
Before(a, b) == TupleLess(SortKey(b), SortKey(a))

\* sorted(..., reverse=True) is stable: x goes behind every element already
\* placed that does not rank strictly behind it
RECURSIVE InsertSortedUnstable(_, _)
InsertSortedUnstable(x, s) ==
    IF s = <<>> THEN <<x>>
    ELSE IF ~Before(Head(s), x) THEN <<x>> \o s
    ELSE <<Head(s)>> \o InsertSortedUnstable(x, Tail(s))

RECURSIVE InsertSorted(_, _)
InsertSorted(x, s) ==
    IF s = <<>> THEN <<x>>
    ELSE IF Before(x, Head(s)) THEN <<x>> \o s
    ELSE <<Head(s)>> \o InsertSorted(x, Tail(s))

RECURSIVE SortFrom(_, _)
SortFrom(done, rest) ==
    IF rest = <<>> THEN done
    ELSE SortFrom(InsertSorted(Head(rest), done), Tail(rest))

Sorted(nets) == SortFrom(<<>>, nets)

\* networks[:5]
SliceTooShort(s, k) == SubSeq(s, 1, IF Len(s) < k - 1 THEN Len(s) ELSE k - 1)

SliceDropsShort(s, k) == IF Len(s) < k THEN <<>> ELSE SubSeq(s, 1, k)

Slice(s, k) == SubSeq(s, 1, IF Len(s) < k THEN Len(s) ELSE k)

RECURSIVE SumAccuracy(_)
SumAccuracy(nets) ==
    IF nets = <<>> THEN 0 ELSE Head(nets).accuracy + SumAccuracy(Tail(nets))

\* return total_accuracy / len(networks): ZeroDivisionError for no network
DivisionNeverFails(nets) == FALSE

DivisionFails(nets) == Len(nets) = 0

BestOf(nets) ==
    IF nets = <<>> THEN Unset
    ELSE CHOOSE a \in {nets[k].accuracy : k \in 1..Len(nets)} :
            \A k \in 1..Len(nets) : nets[k].accuracy <= a

\* ---------------------------------------------------------------- optimizer
\* Optimizer.create_population: `size` genomes sampled from the parameter
\* space, fitness unset
create_population(size, space) ==
    {[k \in 1..size |-> NewGenome(f[k])] : f \in [1..size -> GeneSet(space)]}

\* number of genomes retained unconditionally: the top fraction retain_rate
RetainLength(n) == (n * RetainNum) \div RetainDen

\* the retained genomes: the top of the sorted population
ElitesFromTail(graded) ==
    SubSeq(graded, Len(graded) - RetainLength(Len(graded)) + 1, Len(graded))

Elites(graded) == SubSeq(graded, 1, RetainLength(Len(graded)))

RECURSIVE Pick(_, _, _)
\* the genomes of s at the positions of A that are >= k, in order
Pick(s, A, k) ==
    IF k > Len(s) THEN <<>>
    ELSE (IF k \in A THEN <<s[k]>> ELSE <<>>) \o Pick(s, A, k + 1)

\* the parent pools selection can produce: the elites and any of the other
\* genomes; the whole population when fewer than two parents result
ParentPools(graded) ==
    LET r == RetainLength(Len(graded))
        Pool(A) == Elites(graded) \o Pick(graded, A, r + 1)
    IN  {IF Len(Pool(A)) < 2 THEN graded ELSE Pool(A) :
            A \in SUBSET ((r + 1)..Len(graded))}

\* uniform discrete crossover: each gene is the gene of one of the parents
Crossover(a, b) ==
    [nb_layers : {a.nb_layers, b.nb_layers},
     nb_dense_layers : {a.nb_dense_layers, b.nb_dense_layers},
     nb_neurons : {a.nb_neurons, b.nb_neurons},
     activation : {a.activation, b.activation}]

\* no mutation, or one gene overwritten by a legal value of its dimension
Mutations(c, space) ==
    {c} \cup {[c EXCEPT !.nb_layers = v] : v \in space.nb_layers}
        \cup {[c EXCEPT !.nb_dense_layers = v] : v \in space.nb_dense_layers}
        \cup {[c EXCEPT !.nb_neurons = v] : v \in space.nb_neurons}
        \cup {[c EXCEPT !.activation = v] : v \in space.activation}

Offspring(a, b, space) ==
    UNION {Mutations(c, space) : c \in Crossover(a, b)}

\* two distinct parents of the pool
ParentPairs(pool) ==
    {pr \in (1..Len(pool)) \X (1..Len(pool)) : pr[1] # pr[2]}

\* number of children evolve breeds for a population of n genomes
NumChildrenShort(n) ==
    IF n - RetainLength(n) > 1 THEN n - RetainLength(n) - 1 ELSE 0

NumChildren(n) == n - RetainLength(n)

\* the gene mappings of the children: two per pair of parents, the last pair
\* giving one when an odd number is needed
Broods(pool, c, space) ==
    {kids \in [1..c -> GeneSet(space)] :
        \E prs \in [1..((c + 1) \div 2) -> ParentPairs(pool)] :
            \A j \in 1..c :
                kids[j] \in Offspring(pool[prs[(j + 1) \div 2][1]],
                                      pool[prs[(j + 1) \div 2][2]], space)}

\* Optimizer.evolve: the elites, with their cached fitness, then the children
evolve(pop, space) ==
    LET graded == Sorted(pop)
        c == NumChildren(Len(pop))
    IN  UNION {
            {Elites(graded) \o [j \in 1..c |-> NewGenome(kids[j])] :
                kids \in Broods(pool, c, space)} :
            pool \in ParentPools(graded)}
\* ----------------------------------------------------------------- generate
\* for i in range(generations)
InRangeInclusive(j, n) == 0 <= j /\ j <= n

InRange(j, n) == 0 <= j /\ j < n

\* if i != generations - 1
EvolveDueAlways(j, n) == j # n

EvolveDue(j, n) == j # n - 1

\* the for loop of train_networks has gone through every network
LoopExhaustedEarly(k, nets) == k >= 1 \/ k = Len(nets)

LoopExhausted(k, nets) == k = Len(nets)

\* the dataset train_networks(networks, dataset) hands to network.train
TrainDatasetFixed == "data-small"

TrainDataset == dataset

\* the state of the generation loop controller at a position of generate
ControllerState(p) ==
    CASE p = "create" -> "INITIALIZING"
      [] p = "train" -> "EVALUATING"
      [] p = "evolve" -> "EVOLVING"
      [] p \in {"sort", "done"} -> "TERMINAL"

\* the head of the for loop, reached with index j and population nets: either
\* a round of train_networks begins or the loop is left
LoopHead(j, nets) ==
    IF InRange(j, generations)
    THEN /\ pc' = "train"
         /\ i' = j
         /\ pos' = 0
         /\ trainCalls' = <<>>
         /\ evalRounds' = evalRounds + 1
         /\ invocations' = 0
         /\ unsetAtStart' = NumUnset(nets)
    ELSE /\ pc' = "sort"
         /\ UNCHANGED <<i, pos, trainCalls, evalRounds, invocations, unsetAtStart>>

ParamSpaces == {SmallSpace}

Init ==
    /\ generations \in 0..MaxGenerations
    /\ population \in 0..MaxPopulation
    /\ nn_param_choices \in ParamSpaces
    /\ dataset \in Datasets
    /\ pc = "create"
    /\ aborted = FALSE
    /\ i = 0
    /\ networks = <<>>
    /\ pos = 0
    /\ average_accuracy = <<>>
    /\ unsorted = <<>>
    /\ reported = <<>>
    /\ trainCalls = <<>>
    /\ evalRounds = 0
    /\ evolveCalls = 0
    /\ invocations = 0
    /\ unsetAtStart = 0
    /\ trainedWith = {}
    /\ prevBest = Unset

\* optimizer = Optimizer(nn_param_choices)
\* networks = optimizer.create_population(population)
CreatePopulation ==
    /\ pc = "create" /\ ~aborted
    /\ \E pop \in create_population(population, nn_param_choices) :
          /\ networks' = pop
          /\ LoopHead(0, pop)
    /\ UNCHANGED <<config, aborted, average_accuracy, unsorted, reported, evolveCalls,
                   trainedWith, prevBest>>

\* train_networks: network.train(dataset) for the next network
TrainNetwork ==
    /\ pc = "train" /\ ~aborted
    /\ pos < Len(networks)
    /\ \E outcome \in TrainOutcomes :
          LET g == NetworkTrain(networks[pos + 1], outcome) IN
          /\ networks' = [networks EXCEPT ![pos + 1] = g]
          /\ invocations' = invocations + (g.submitted - networks[pos + 1].submitted)
    /\ pos' = pos + 1
    /\ trainCalls' = Append(trainCalls, pos + 1)
    /\ trainedWith' = trainedWith \cup {TrainDataset}
    /\ UNCHANGED <<config, pc, aborted, i, average_accuracy, unsorted, reported,
                   evalRounds, evolveCalls, unsetAtStart, prevBest>>

\* train_networks returns; average_accuracy = get_average_accuracy(networks);
\* then either evolve is due or the loop goes on to its next index
GetAverageAccuracy ==
    /\ pc = "train" /\ ~aborted
    /\ LoopExhausted(pos, networks)
    /\ IF DivisionFails(networks)
       THEN \* total_accuracy / len(networks): ZeroDivisionError
            /\ aborted' = TRUE
            /\ UNCHANGED <<pc, i, pos, trainCalls, average_accuracy, evalRounds,
                           invocations, unsetAtStart>>
       ELSE /\ average_accuracy' = <<SumAccuracy(networks), Len(networks)>>
            /\ aborted' = aborted
            /\ IF EvolveDue(i, generations)
               THEN /\ pc' = "evolve"
                    /\ UNCHANGED <<i, pos, trainCalls, evalRounds, invocations,
                                   unsetAtStart>>
               ELSE LoopHead(i + 1, networks)
    /\ UNCHANGED <<config, networks, unsorted, reported, evolveCalls, trainedWith,
                   prevBest>>

\* networks = optimizer.evolve(networks)
Evolve ==
    /\ pc = "evolve" /\ ~aborted
    /\ \E next \in evolve(networks, nn_param_choices) :
          /\ networks' = next
          /\ LoopHead(i + 1, next)
    /\ evolveCalls' = evolveCalls + 1
    /\ prevBest' = BestOf(networks)
    /\ UNCHANGED <<config, aborted, average_accuracy, unsorted, reported, trainedWith>>

\* networks = sorted(networks, key=..., reverse=True)
\* print_networks(networks[:5])
SortAndReport ==
    /\ pc = "sort" /\ ~aborted
    /\ unsorted' = networks
    /\ networks' = Sorted(networks)
    /\ reported' = Slice(Sorted(networks), TopK)
    /\ pc' = "done"
    /\ UNCHANGED <<config, aborted, i, pos, average_accuracy, evalRounds,
                   evolveCalls, trainCalls, invocations, unsetAtStart, trainedWith,
                   prevBest>>

Next ==
    \/ CreatePopulation
    \/ TrainNetwork
    \/ GetAverageAccuracy
    \/ Evolve
    \/ SortAndReport

Spec == Init /\ [][Next]_vars

\* generate is one sequential flow: as long as a statement can be executed
\* (every call it makes returning) the next one is
FairSpec == Init /\ [][Next]_vars /\ WF_vars(Next)

\* evolve has no two distinct parents to breed the children it needs, and
\* does not return
EvolveHangs == pc = "evolve" /\ evolve(networks, nn_param_choices) = {}
\* ------------------------------------------------- the final sort on its own
\* genomes of a space that have been evaluated, with a fitness of accs
EvaluatedGenomes(space, accs) ==
    {[NewGenome(g) EXCEPT !.accuracy = a, !.submitted = 1, !.writes = 1] :
        g \in GeneSet(space), a \in accs}

Populations(genomes, maxLen) ==
    UNION {[1..n -> genomes] : n \in 0..maxLen}

\* generate at the end of its loop, one round done, with any evaluated
\* population: short ones over the full space, long ones over the small one
InitSort ==
    /\ \/ /\ nn_param_choices = FullSpace
          /\ networks \in Populations(
                EvaluatedGenomes(FullSpace, {WorstFitness, MaxAccuracy}), MaxTieLen)
       \/ /\ nn_param_choices = SmallSpace
          /\ networks \in Populations(
                EvaluatedGenomes(SmallSpace, {WorstFitness, MaxAccuracy}), MaxReportLen)
    /\ Len(networks) >= 1
    /\ generations = 1
    /\ population = Len(networks)
    /\ dataset = "data-original"
    /\ pc = "sort"
    /\ aborted = FALSE
    /\ i = 0
    /\ pos = Len(networks)
    /\ trainCalls = [k \in 1..Len(networks) |-> k]
    /\ average_accuracy = <<SumAccuracy(networks), Len(networks)>>
    /\ unsorted = <<>>
    /\ reported = <<>>
    /\ evalRounds = 1
    /\ evolveCalls = 0
    /\ invocations = Len(networks)
    /\ unsetAtStart = Len(networks)
    /\ trainedWith = {dataset}
    /\ prevBest = Unset

NextSort == SortAndReport

SortSpec == InitSort /\ [][NextSort]_vars
\* ------------------------------------------------------------------- claims
Range(s) == {s[k] : k \in 1..Len(s)}

CountOf(s, x) == Cardinality({k \in 1..Len(s) : s[k] = x})

IsPermutation(s, t) ==
    /\ Len(s) = Len(t)
    /\ \A x \in Range(s) \cup Range(t) : CountOf(s, x) = CountOf(t, x)

\* x ranks strictly before y: higher fitness, then fewer convolutional
\* layers, then fewer dense layers, then fewer neurons
RanksBefore(x, y) ==
    \/ x.accuracy > y.accuracy
    \/ /\ x.accuracy = y.accuracy
       /\ \/ x.nb_layers < y.nb_layers
          \/ /\ x.nb_layers = y.nb_layers
             /\ \/ x.nb_dense_layers < y.nb_dense_layers
                \/ /\ x.nb_dense_layers = y.nb_dense_layers
                   /\ x.nb_neurons < y.nb_neurons

\* C1: a run of generate performs exactly `generations` evaluation rounds:
\* never more than configured, round number i + 1 during iteration i (none
\* skipped, none repeated), and all of them once the loop has been left.
C1_ExactlyGRounds ==
    /\ evalRounds <= generations
    /\ pc \in {"train", "evolve"} => evalRounds = i + 1
    /\ pc \in {"sort", "done"} => evalRounds = generations

C1_Witness ==
    pc = "done" /\ generations >= 3 /\ evalRounds = generations /\ population >= 2

\* C2: evolve is called on every generation boundary except the last: G - 1
\* calls for G >= 1 generations, each followed by another evaluation round,
\* none after the final round.
C2_EvolveExceptLast ==
    /\ pc = "train" => evolveCalls = evalRounds - 1
    /\ pc = "evolve" => evolveCalls = evalRounds - 1 /\ evalRounds < generations
    /\ (pc \in {"sort", "done"} /\ generations >= 1) =>
            evolveCalls = generations - 1 /\ evalRounds = evolveCalls + 1

C2_Witness ==
    pc = "done" /\ generations >= 3 /\ evolveCalls = generations - 1

\* C3 as stated: the only transitions of the controller are INITIALIZING to
\* EVALUATING, EVALUATING to EVOLVING, EVOLVING to EVALUATING and EVALUATING
\* to TERMINAL.
StatedTransitions ==
    {<<"INITIALIZING", "EVALUATING">>, <<"EVALUATING", "EVOLVING">>,
     <<"EVOLVING", "EVALUATING">>, <<"EVALUATING", "TERMINAL">>}

C3_Stated ==
    [][ControllerState(pc') # ControllerState(pc) =>
          <<ControllerState(pc), ControllerState(pc')>> \in StatedTransitions]_vars

\* C3: with at least one generation configured the controller takes only the
\* four stated transitions, so TERMINAL is entered from EVALUATING; with no
\* generation configured it goes from INITIALIZING straight to TERMINAL.
C3_Transitions ==
    [][ControllerState(pc') # ControllerState(pc) =>
          IF generations >= 1
          THEN <<ControllerState(pc), ControllerState(pc')>> \in StatedTransitions
          ELSE <<ControllerState(pc), ControllerState(pc')>>
                    = <<"INITIALIZING", "TERMINAL">>]_vars

C3_Witness ==
    pc = "done" /\ generations >= 2 /\ evolveCalls >= 1 /\ evalRounds >= 2

\* C4: evolve is only called on a fully evaluated population, with
\* train_networks through with every network; during a round the networks
\* already passed are evaluated, and the population of round r is the one the
\* evolve after round r - 1 returned.
C4_Barrier ==
    /\ pc = "evolve" => AllEvaluated(networks) /\ pos = Len(networks)
    /\ pc = "train" => \A k \in 1..pos : networks[k].accuracy # Unset
    /\ pc = "train" => evolveCalls = evalRounds - 1

C4_Witness ==
    pc = "evolve" /\ evalRounds >= 2 /\ Len(networks) >= 3

\* C5: no genome is submitted to the training collaborator twice and each
\* fitness is written once; the invocations of a round are the genomes whose
\* fitness was unset when it began, no more.
C5_Caching ==
    /\ \A k \in 1..Len(networks) :
          /\ networks[k].submitted <= 1
          /\ networks[k].writes <= 1
          /\ networks[k].accuracy # Unset <=> networks[k].writes = 1
    /\ pc = "train" => invocations = unsetAtStart - NumUnset(networks)
    /\ (pc \in {"evolve", "sort", "done"} /\ evalRounds >= 1) =>
            invocations = unsetAtStart

C5_Witness ==
    /\ pc = "evolve" /\ evalRounds >= 2
    /\ unsetAtStart < Len(networks)
    /\ invocations = unsetAtStart

\* C6: a failure of the trainer for a genome is recorded as the worst fitness
\* of that genome, every genome has a fitness once the round is over, the run
\* is not aborted by it and the round can go on.
C6_FailureContained ==
    /\ \A k \in 1..Len(networks) :
          networks[k].failed =>
              networks[k].accuracy = WorstFitness /\ networks[k].writes = 1
    /\ (pc \in {"evolve", "sort", "done"} /\ evalRounds >= 1) =>
            AllEvaluated(networks)
    /\ aborted => Len(networks) = 0
    /\ (pc = "train" /\ ~aborted) => ENABLED (TrainNetwork \/ GetAverageAccuracy)

C6_Witness ==
    /\ pc = "done" /\ evolveCalls >= 1 /\ Len(networks) >= 3
    /\ \E k \in 1..Len(networks) : networks[k].failed
    /\ \E k \in 1..Len(networks) : ~networks[k].failed

\* C7: the terminal step sorts the final population and reports its first
\* five genomes (all of them when there are fewer), in ranked order: no
\* unreported genome ranks strictly before a reported one.
C7_TopFiveReported ==
    pc = "done" =>
        /\ IsPermutation(networks, unsorted)
        /\ Len(reported) = IF Len(networks) >= 5 THEN 5 ELSE Len(networks)
        /\ reported = SubSeq(networks, 1, Len(reported))
        /\ \A j \in 1..Len(reported) : \A k \in 1..Len(reported) :
              j < k => ~RanksBefore(reported[k], reported[j])
        /\ \A j \in 1..Len(reported) : \A k \in (Len(reported) + 1)..Len(networks) :
              ~RanksBefore(networks[k], reported[j])

C7_Witness ==
    /\ pc = "done" /\ Len(networks) >= 6 /\ Len(reported) = 5
    /\ unsorted # networks
    /\ RanksBefore(reported[5], networks[6])
    /\ RanksBefore(reported[1], reported[5])

\* C8: the final sort puts higher fitness first and, at equal fitness, fewer
\* convolutional layers, then fewer dense layers, then fewer neurons.
C8_CompositeOrder ==
    pc = "done" =>
        /\ IsPermutation(networks, unsorted)
        /\ \A j \in 1..Len(networks) : \A k \in 1..Len(networks) :
              j < k => ~RanksBefore(networks[k], networks[j])

\* equal fitness, a 5-layer genome handed in before a 3-layer one that has
\* more dense layers and more neurons: the 3-layer genome comes out first
C8_Witness ==
    /\ pc = "done" /\ Len(networks) = 2
    /\ unsorted[1].accuracy = unsorted[2].accuracy
    /\ unsorted[1].nb_layers = 5 /\ unsorted[2].nb_layers = 3
    /\ unsorted[1].nb_dense_layers < unsorted[2].nb_dense_layers
    /\ unsorted[1].nb_neurons < unsorted[2].nb_neurons
    /\ networks[1] = unsorted[2] /\ networks[2] = unsorted[1]

\* C9: the working population has `population` genomes from its creation on,
\* after any number of evolve steps.
C9_SizeConstant ==
    pc # "create" => Len(networks) = population

C9_Witness ==
    pc = "train" /\ evolveCalls >= 2 /\ population >= 3 /\ Len(networks) = population

C11_Stated ==
    /\ <>(pc = "done" \/ EvolveHangs)
    /\ [](pc \in {"sort", "done"} => evalRounds = generations)

\* C12: no step of generate changes the generation count, the population
\* size, the parameter space or the dataset identifier, and every call of the
\* training collaborator is handed that same dataset identifier.
C12_ConfigImmutable ==
    /\ [][config' = config]_vars
    /\ [](trainedWith \subseteq {dataset})

C12_Witness ==
    /\ pc = "done" /\ evalRounds >= 2 /\ evolveCalls >= 1
    /\ dataset = "data-original" /\ trainedWith = {dataset}

\* the four fields the final sort compares
KeyFields(x) == <<x.accuracy, x.nb_layers, x.nb_dense_layers, x.nb_neurons>>

\* C13: the final ordering is total and stable: of any two genomes of the
\* final population either one sorts before the other or all four key fields
\* are equal, never both; and the genomes sharing all four key fields stand
\* in the sorted population in the order they had in the unsorted one.
C13_TotalAndStable ==
    pc = "done" =>
        /\ \A a \in Range(unsorted) : \A b \in Range(unsorted) :
              /\ Before(a, b) \/ Before(b, a) \/ KeyFields(a) = KeyFields(b)
              /\ ~(Before(a, b) /\ Before(b, a))
              /\ KeyFields(a) = KeyFields(b) => ~Before(a, b)
        /\ \A a \in Range(unsorted) :
              SelectSeq(networks, LAMBDA x : KeyFields(x) = KeyFields(a))
                  = SelectSeq(unsorted, LAMBDA x : KeyFields(x) = KeyFields(a))

C13_Witness ==
    /\ pc = "done" /\ Len(unsorted) = 2
    /\ KeyFields(unsorted[1]) = KeyFields(unsorted[2])
    /\ unsorted[1].activation = "relu" /\ unsorted[2].activation = "elu"
    /\ networks = unsorted

\* C14: within a round train is called on the members of the population one
\* at a time in population order, each exactly once; when the average has
\* been computed and evolve has not yet been called, every member has been
\* trained and the average is the one of the population so trained.
C14_TrainEachOnceInOrder ==
    /\ pc = "train" =>
          /\ pos <= Len(networks)
          /\ trainCalls = [k \in 1..pos |-> k]
    /\ (pc \in {"evolve", "sort", "done"} /\ evalRounds >= 1) =>
          /\ trainCalls = [k \in 1..Len(networks) |-> k]
          /\ average_accuracy = <<SumAccuracy(networks), Len(networks)>>

C14_Witness ==
    /\ pc = "evolve" /\ evalRounds >= 2
    /\ Len(networks) = 3 /\ trainCalls = <<1, 2, 3>>
    /\ average_accuracy = <<SumAccuracy(networks), 3>>

\* C15: with a generation count of 0 no round of evaluation is run and evolve
\* is never called, yet the final step is taken: the initial population is
\* sorted and its first five genomes are reported, and no genome of it was
\* ever handed to the training collaborator.
C15_ZeroGenerations ==
    generations = 0 =>
        /\ pc \in {"create", "sort", "done"}
        /\ ~aborted
        /\ pc = "sort" => ENABLED SortAndReport
        /\ evalRounds = 0 /\ evolveCalls = 0 /\ trainCalls = <<>>
        /\ trainedWith = {}
        /\ \A k \in 1..Len(networks) :
              networks[k].submitted = 0 /\ networks[k].accuracy = Unset
        /\ pc = "done" =>
              /\ unsorted \in create_population(population, nn_param_choices)
              /\ networks = Sorted(unsorted)
              /\ reported = Slice(networks, TopK)

C15_Witness ==
    /\ generations = 0 /\ pc = "done" /\ population = 3
    /\ Len(reported) = 3 /\ unsorted # networks
    /\ \A k \in 1..3 : reported[k].submitted = 0

\* C16: the number of genomes reported is the smaller of 5 and the size of
\* the population; a population of fewer than five genomes is reported
\* whole.
C16_ReportCount ==
    pc = "done" =>
        /\ Len(unsorted) >= 5 => Len(reported) = 5
        /\ Len(unsorted) < 5 =>
              /\ Len(reported) = Len(unsorted)
              /\ reported = networks
              /\ IsPermutation(reported, unsorted)

C16_Witness ==
    /\ pc = "done" /\ Len(unsorted) = 4 /\ Len(reported) = 4
    /\ reported = networks /\ unsorted # networks

\* C17: with an empty population and at least one generation the first round
\* trains nothing and the average fails on the division by zero: the run
\* aborts in generation 1, before any evolve and before the final report.
\* With a population that is not empty the average is the sum of the
\* fitnesses over the size of the population and does not fail.
C17_EmptyPopulationAborts ==
    /\ aborted =>
          /\ population = 0 /\ generations >= 1
          /\ pc = "train" /\ i = 0 /\ evalRounds = 1
          /\ networks = <<>> /\ trainCalls = <<>> /\ trainedWith = {}
          /\ evolveCalls = 0 /\ reported = <<>>
    /\ (population = 0 /\ generations >= 1) =>
          /\ pc \in {"create", "train"}
          /\ pc = "train" => (aborted \/ ENABLED GetAverageAccuracy)
    /\ population >= 1 =>
          /\ ~aborted
          /\ (pc \in {"evolve", "sort", "done"} /\ evalRounds >= 1) =>
                /\ average_accuracy[1] = SumAccuracy(networks)
                /\ average_accuracy[2] = population

C17_Witness ==
    /\ aborted /\ population = 0 /\ generations >= 2
    /\ pc = "train" /\ evalRounds = 1 /\ evolveCalls = 0
====
